---------------------------- MODULE Spec2Model ----------------------------
(***************************************************************************)
(* Model of PaymentCalculator (src/loan_calculator.py): the amortization   *)
(* schedule generator with one-time and recurring extra payments.          *)
(*                                                                         *)
(* Amounts are Decimal values with two fractional digits (the command line *)
(* accepts no more); the model keeps them as integers in cents.  The       *)
(* annual rate is a whole number of percent, so the monthly rate           *)
(* r = annual_rate / 1200 is the fraction annual_rate / RateDivisor and    *)
(* (1 + r)^i = (RateDivisor + annual_rate)^i / RateDivisor^i.  Powers do   *)
(* not fit TLC's integers, so they are kept as little-endian digit         *)
(* sequences in base RateDivisor, where dividing by RateDivisor^i is a     *)
(* shift.  Every quotient is computed exactly and then rounded the way     *)
(* Python's round(Decimal, 2) rounds: half to even.  (For the inputs of    *)
(* this model the 28-digit Decimal context gives the same cents.)          *)
(***************************************************************************)
EXTENDS Integers, Sequences, FiniteSets, TLC

VARIABLES principal, annual_rate, payments,
          one_time_payments, recurring_payments,
          gen, created

engine == <<principal, annual_rate, payments,
            one_time_payments, recurring_payments>>
vars == <<principal, annual_rate, payments,
          one_time_payments, recurring_payments, gen, created>>

---------------------------------------------------------------------------
(* Bounds of the model                                                     *)

\* longest contractual term among the small loan terms
MaxPayments == 4
\* how many times iter() is called on the one engine instance
MaxIters == 3

\* self._r = self.annual_rate / 1200
RateDivisor == 1200

\* the generator objects alive at one time (an older one may be abandoned)
Slots == {1, 2}

---------------------------------------------------------------------------
(* Arithmetic                                                              *)

Abs(n) == IF n < 0 THEN -n ELSE n
Sgn(n) == IF n < 0 THEN -1 ELSE IF n = 0 THEN 0 ELSE 1

\* round(n / d) for d > 0, ties to the even neighbour
RoundHalfEven(n, d) ==
    LET q == n \div d
        rem == n % d
    IN  IF 2 * rem < d THEN q
        ELSE IF 2 * rem > d THEN q + 1
        ELSE IF q % 2 = 0 THEN q ELSE q + 1

\* digit k (1 = least significant) of a digit sequence
Digit(x, k) == IF k >= 1 /\ k <= Len(x) THEN x[k] ELSE 0

RECURSIVE FromInt(_)
FromInt(n) ==
    IF n = 0 THEN <<>>
    ELSE <<n % RateDivisor>> \o FromInt(n \div RateDivisor)

RECURSIVE ToInt(_)
ToInt(x) ==
    IF x = <<>> THEN 0 ELSE Head(x) + RateDivisor * ToInt(Tail(x))

\* x * RateDivisor^n
ShiftLeft(x, n) == [k \in 1..n |-> 0] \o x

RECURSIVE MulSmall(_, _, _)
MulSmall(x, c, carry) ==
    IF x = <<>> THEN FromInt(carry)
    ELSE LET t == Head(x) * c + carry
         IN  <<t % RateDivisor>> \o MulSmall(Tail(x), c, t \div RateDivisor)

RECURSIVE Pow(_, _)
Pow(c, n) == IF n = 0 THEN <<1>> ELSE MulSmall(Pow(c, n - 1), c, 0)

RECURSIVE LessEqFrom(_, _, _)
LessEqFrom(x, y, k) ==
    IF k = 0 THEN TRUE
    ELSE IF Digit(x, k) < Digit(y, k) THEN TRUE
    ELSE IF Digit(x, k) > Digit(y, k) THEN FALSE
    ELSE LessEqFrom(x, y, k - 1)

Max(a, b) == IF a >= b THEN a ELSE b
LessEq(x, y) == LessEqFrom(x, y, Max(Len(x), Len(y)))

RECURSIVE SubFrom(_, _, _, _)
\* x - y for x >= y, digit k upwards with the borrow so far
SubFrom(x, y, k, borrow) ==
    IF k > Len(x) THEN <<>>
    ELSE LET t == Digit(x, k) - Digit(y, k) - borrow
         IN  IF t < 0
             THEN <<t + RateDivisor>> \o SubFrom(x, y, k + 1, 1)
             ELSE <<t>> \o SubFrom(x, y, k + 1, 0)
Sub(x, y) == SubFrom(x, y, 1, 0)

RECURSIVE FloorDiv(_, _, _, _)
\* the largest q in lo..hi with q * d <= num
FloorDiv(num, d, lo, hi) ==
    IF lo >= hi THEN lo
    ELSE LET mid == (lo + hi + 1) \div 2
         IN  IF LessEq(MulSmall(d, mid, 0), num)
             THEN FloorDiv(num, d, mid, hi)
             ELSE FloorDiv(num, d, lo, mid - 1)

\* round(num / d), half to even, for digit sequences with quotient <= hi
RoundDiv(num, d, hi) ==
    LET q == FloorDiv(num, d, 0, hi)
        twice == MulSmall(Sub(num, MulSmall(d, q, 0)), 2, 0)
    IN  IF ~LessEq(d, twice) THEN q
        ELSE IF ~LessEq(twice, d) THEN q + 1
        ELSE IF q % 2 = 0 THEN q ELSE q + 1

\* round(x / RateDivisor^n), half to even
RoundShift(x, n) ==
    LET q == ToInt(SubSeq(x, n + 1, Len(x)))
        top == Digit(x, n)
        low == \E k \in 1..(n - 1) : Digit(x, k) # 0
        half == RateDivisor \div 2
    IN  IF n = 0 THEN q
        ELSE IF top < half THEN q
        ELSE IF top > half \/ low THEN q + 1
        ELSE IF q % 2 = 0 THEN q ELSE q + 1

RECURSIVE SumOver(_, _)
SumOver(S, f) ==
    IF S = {} THEN 0
    ELSE LET x == CHOOSE y \in S : TRUE
         IN  f[x] + SumOver(S \ {x}, f)

---------------------------------------------------------------------------
(* PaymentCalculator                                                       *)

\* denom = ((1 + self._r)**self.payments - 1), times RateDivisor^payments
Denom == Sub(Pow(RateDivisor + annual_rate, payments),
             ShiftLeft(<<1>>, payments))

\* the divisions of _first_month_principal raise (Decimal: x / 0)
DivisionRaises == annual_rate = 0 \/ payments = 0

\* _first_month_principal: round(principal * r / denom, 2), in cents
FirstMonthPrincipal ==
    Sgn(principal) *
    RoundDiv(ShiftLeft(FromInt(Abs(principal) * annual_rate), payments - 1),
             Denom, Abs(principal))

\* monthly_payment: round(p1 + principal * r, 2)
MonthlyPayment ==
    RoundHalfEven(FirstMonthPrincipal * RateDivisor + principal * annual_rate,
                  RateDivisor)

\* round(p1 * (1 + r)**e, 2)
ScaledPrincipal(p1, e) ==
    Sgn(p1) * RoundShift(MulSmall(Pow(RateDivisor + annual_rate, e), Abs(p1), 0), e)

\* fault variant of BasePrincipal: the exponent counted from the last period
BasePrincipalReversed(p1, i) == ScaledPrincipal(p1, payments - 1 - i)

\* principal_i = round(p1 * (1 + self._r)**i, 2)
BasePrincipal(p1, i) == ScaledPrincipal(p1, i)

\* fault variant of Fires: the interval is ignored, only the start period fires
FiresOnce(i, s, o) == i = s

\* i - s >= 0 and (i - s) % o == 0   (o # 0; Python's % for a negative o)
Fires(i, s, o) == i - s >= 0 /\ (i - s) % Abs(o) = 0

\* the recurring keys whose test is evaluated to the end at period i
Reached(i) == {k \in DOMAIN recurring_payments : i - k[1] >= 0}

\* (i - s) % 0 raises ZeroDivisionError
ExtraRaises(i) == \E k \in Reached(i) : k[2] = 0

\* _extra_payments(i)
ExtraPayments(i) ==
    (IF i \in DOMAIN one_time_payments THEN one_time_payments[i] ELSE 0)
    + SumOver({k \in Reached(i) : Fires(i, k[1], k[2])}, recurring_payments)

---------------------------------------------------------------------------
(* __iter__: a generator frame holds the locals of one iteration, its      *)
(* position pc, and the records it has yielded so far (out).               *)

NoFrame == [pc |-> "none", i |-> 0, p1 |-> 0, monthly_payment |-> 0,
            principal_paid |-> 0, extra_pay |-> 0, principal_i |-> 0,
            out |-> <<>>]

\* fault variant of FreshPrincipalPaid: the counter is shared with the other
\* iteration instead of starting afresh
SharedPrincipalPaid(k) == gen[3 - k].principal_paid

\* principal_paid = 0
FreshPrincipalPaid(k) == 0

\* fault variant of RangeStop: the loop stops one period short
RangeStopShort == payments - 1

\* for i in range(self.payments)
RangeStop == payments

\* (principal_paid + principal_i >= self.principal) or (i == self.payments - 1)
ClosesLoan(f) ==
    \/ f.principal_paid + f.principal_i >= principal
    \/ f.i = payments - 1

\* fault variant of FinalPrincipal: the closing period pays its base principal
FinalPrincipalScheduled(f) == f.principal_i

\* final_principal = self.principal - principal_paid
FinalPrincipal(f) == principal - f.principal_paid

\* round(final_principal * self._r, 2)
FinalInterest(f) == RoundHalfEven(FinalPrincipal(f) * annual_rate, RateDivisor)

\* fault variant of Interest: interest charged on the balance still owed, so
\* that it follows the extra payments
InterestOnBalance(f) ==
    RoundHalfEven((principal - f.principal_paid) * annual_rate, RateDivisor)

\* interest_i = monthly_payment - principal_i
Interest(f) == f.monthly_payment - f.principal_i

\* P_rem = self.principal - principal_paid   (principal_i already added)
Remaining(f) == principal - f.principal_paid

\* fault variant of Refund: the whole extra payment is handed back
RefundWhole(f) == f.extra_pay

\* fault variant of Refund: the operands swapped
RefundNegated(f) == Remaining(f) - f.extra_pay

\* extra_pay - P_rem
Refund(f) == f.extra_pay - Remaining(f)

\* yield rec at the given line
Yield(f, tuple, line) ==
    [f EXCEPT !.pc = line,
              !.out = Append(@, [principal |-> tuple[1], interest |-> tuple[2],
                                 refund |-> tuple[3], via |-> line,
                                 principal_i |-> f.principal_i])]

\* lines 141-168: one pass of the loop body for f.i, up to its yield
LoopBody(f0) ==
    IF ExtraRaises(f0.i) THEN [f0 EXCEPT !.pc = "raised"]
    ELSE
    LET f1 == [f0 EXCEPT !.extra_pay = ExtraPayments(f0.i),
                         !.principal_i = BasePrincipal(f0.p1, f0.i)]
    IN  IF ClosesLoan(f1)
        THEN Yield(f1, <<FinalPrincipal(f1), FinalInterest(f1), f1.extra_pay>>,
                   "L149")
        ELSE
        LET f2 == [f1 EXCEPT !.principal_paid = @ + f1.principal_i]
        IN  IF f2.extra_pay > Remaining(f2)
            THEN Yield(f2, <<f2.principal_i + Remaining(f2), Interest(f2),
                             Refund(f2)>>, "L161")
            ELSE Yield([f2 EXCEPT !.principal_paid = @ + f2.extra_pay],
                       <<f2.principal_i + f2.extra_pay, Interest(f2), 0>>,
                       "L168")

\* the for statement fetches index i: run the body, or fall off the loop
LoopAt(f, i) ==
    IF i < RangeStop THEN LoopBody([f EXCEPT !.i = i])
    ELSE [f EXCEPT !.pc = "done"]

---------------------------------------------------------------------------
(* Inputs                                                                  *)

Principals == {-100, 0, 1, 2, 50, 100, 1000}
Rates == {0, 12, 120}
ScenarioA == <<100000, 12, 10>>
Terms == (Principals \X Rates \X (0..MaxPayments)) \cup {ScenarioA}

Amounts == {-5, 1, 30, 1161, 1162, 100000}
OneTimeKeys == {-1, 0, 1, 2}
RecurringKeys ==
    {<<0, 1>>, <<1, 2>>, <<0, 2>>, <<-1, 1>>, <<0, 0>>, <<1, 0>>, <<0, -2>>}

OneTimeMaps ==
    {<<>>} \cup {(k :> a) : k \in OneTimeKeys, a \in Amounts}
RecurringMaps ==
    {<<>>} \cup {(k :> a) : k \in RecurringKeys, a \in Amounts}
             \cup {(<<0, 1>> :> a) @@ (<<0, 2>> :> 30) : a \in {1, 30}}

Extras ==
    {<<o, <<>>>> : o \in OneTimeMaps}
    \cup {<<<<>>, r>> : r \in RecurringMaps}
    \cup {<<(k :> a), (<<0, 1>> :> b)>> :
              k \in {0, 1}, a \in {1, 30}, b \in {1, 30}}

---------------------------------------------------------------------------
(* The state machine                                                       *)

\* __init__ stores its arguments unchecked; no generator exists yet
Init ==
    /\ \E t \in Terms :
          /\ principal = t[1]
          /\ annual_rate = t[2]
          /\ payments = t[3]
    /\ \E e \in Extras :
          /\ one_time_payments = e[1]
          /\ recurring_payments = e[2]
    /\ gen = [k \in Slots |-> NoFrame]
    /\ created = 0

\* iter(pc): a new generator object in slot k; the body has not started
NewIter(k) ==
    /\ created < MaxIters
    /\ created' = created + 1
    /\ gen' = [gen EXCEPT ![k] = [NoFrame EXCEPT !.pc = "start"]]
    /\ UNCHANGED engine

\* the first next(): lines 137-139, then the loop from i = 0
FirstNext(k) ==
    /\ gen[k].pc = "start"
    /\ gen' = [gen EXCEPT ![k] =
                 IF DivisionRaises THEN [@ EXCEPT !.pc = "raised"]
                 ELSE LoopAt([@ EXCEPT !.p1 = FirstMonthPrincipal,
                                       !.monthly_payment = MonthlyPayment,
                                       !.principal_paid = FreshPrincipalPaid(k)],
                             0)]
    /\ UNCHANGED <<engine, created>>

\* next() after the yield of line 168: the payoff test, then the next index
ResumeLoop(k) ==
    /\ gen[k].pc = "L168"
    /\ gen' = [gen EXCEPT ![k] =
                 IF @.principal_paid = principal THEN [@ EXCEPT !.pc = "done"]
                 ELSE LoopAt(@, @.i + 1)]
    /\ UNCHANGED <<engine, created>>

\* next() after the yield of line 149 or 161: break
ResumeBreak(k) ==
    /\ gen[k].pc \in {"L149", "L161"}
    /\ gen' = [gen EXCEPT ![k].pc = "done"]
    /\ UNCHANGED <<engine, created>>

Next ==
    \E k \in Slots :
        \/ NewIter(k)
        \/ FirstNext(k)
        \/ ResumeLoop(k)
        \/ ResumeBreak(k)

Spec == Init /\ [][Next]_vars

---------------------------------------------------------------------------
(* Vocabulary of the properties                                            *)

ValidTerms == principal > 0 /\ annual_rate > 0 /\ payments >= 1

ValidExtras ==
    /\ \A k \in DOMAIN one_time_payments :
          k >= 0 /\ one_time_payments[k] > 0
    /\ \A k \in DOMAIN recurring_payments :
          k[1] >= 0 /\ k[2] >= 1 /\ recurring_payments[k] > 0

\* what the constructor is documented to reject
InvalidInput ==
    \/ principal <= 0 \/ payments <= 0 \/ annual_rate < 0
    \/ \E k \in DOMAIN one_time_payments :
          k < 0 \/ one_time_payments[k] <= 0
    \/ \E k \in DOMAIN recurring_payments :
          k[1] < 0 \/ k[2] < 1 \/ recurring_payments[k] <= 0

NoExtras == one_time_payments = <<>> /\ recurring_payments = <<>>

Triple(rec) == <<rec.principal, rec.interest, rec.refund>>

RECURSIVE SumPrincipal(_)
SumPrincipal(out) ==
    IF out = <<>> THEN 0 ELSE Head(out).principal + SumPrincipal(Tail(out))

\* principal still owed after the base principal of record j of out
RemainingAt(out, j) ==
    principal - (SumPrincipal(SubSeq(out, 1, j - 1)) + out[j].principal_i)

RECURSIVE ScheduledPaid(_)
\* the rounded base principal of periods 0..j, added up
ScheduledPaid(j) ==
    IF j < 0 THEN 0
    ELSE BasePrincipal(FirstMonthPrincipal, j) + ScheduledPaid(j - 1)

IsScenarioA == <<principal, annual_rate, payments>> = ScenarioA

---------------------------------------------------------------------------
(* C1  Conservation                                                        *)

\* C1: for valid terms and valid extra payments, the principal portions of
\* a completed iteration add up to the principal exactly, whichever yield
\* ended it.
C1_Conservation ==
    \A k \in Slots :
        (ValidTerms /\ ValidExtras /\ gen[k].pc = "done")
            => SumPrincipal(gen[k].out) = principal

\* a completed schedule of several records that an overpaying extra ended
C1_Witness ==
    \E k \in Slots :
        /\ ValidTerms /\ ValidExtras /\ gen[k].pc = "done"
        /\ Len(gen[k].out) >= 2
        /\ gen[k].out[Len(gen[k].out)].via = "L161"
        /\ gen[k].out[1].principal > gen[k].out[1].principal_i

---------------------------------------------------------------------------
(* C2  Length                                                              *)

\* C2 as claimed: with valid terms and no extra payments a completed
\* schedule has exactly `payments` records.
C2_ExactLength ==
    \A k \in Slots :
        (ValidTerms /\ NoExtras /\ gen[k].pc = "done")
            => Len(gen[k].out) = payments

\* C2 amended: a schedule never has more than `payments` records, and with
\* valid terms and no extra payments a completed one has exactly `payments`
\* records if and only if the rounded base principal of the periods before
\* the last one adds up to less than the principal.
C2_LengthBound ==
    \A k \in Slots :
        /\ Len(gen[k].out) <= payments
        /\ (ValidTerms /\ NoExtras /\ gen[k].pc = "done")
              => (Len(gen[k].out) = payments
                    <=> \A j \in 0..(payments - 2) : ScheduledPaid(j) < principal)

\* a full-length schedule without extra payments
C2_Witness ==
    \E k \in Slots :
        /\ ValidTerms /\ NoExtras /\ gen[k].pc = "done"
        /\ payments >= 3
        /\ Len(gen[k].out) = payments

---------------------------------------------------------------------------
(* C3  First-period interest                                               *)

\* C3: with valid input, the interest of the record for period 0 equals
\* round(principal * annual_rate / 1200, 2) under the engine's rounding.
C3_FirstInterest ==
    \A k \in Slots :
        (ValidTerms /\ ValidExtras /\ Len(gen[k].out) >= 1)
            => gen[k].out[1].interest
                 = RoundHalfEven(principal * annual_rate, RateDivisor)

---------------------------------------------------------------------------
(* C4  Refund correctness                                                  *)

\* C4 as claimed: whenever the extra payment of a produced period exceeds
\* the principal remaining after that period's base principal, the record
\* refunds extra - remaining and is the last one, in every branch.
C4_RefundEveryBranch ==
    \A k \in Slots : \A j \in 1..Len(gen[k].out) :
        (ValidTerms /\ ValidExtras
           /\ ExtraPayments(j - 1) > RemainingAt(gen[k].out, j))
            => /\ j = Len(gen[k].out)
               /\ gen[k].out[j].refund
                    = ExtraPayments(j - 1) - RemainingAt(gen[k].out, j)

\* C4 amended: such a record is always the last one; it refunds
\* extra - remaining unless the schedule-closing branch produced it, and
\* then it refunds the whole extra payment of the period.
C4_RefundOverpay ==
    \A k \in Slots : \A j \in 1..Len(gen[k].out) :
        (ValidTerms /\ ValidExtras
           /\ ExtraPayments(j - 1) > RemainingAt(gen[k].out, j))
            => /\ j = Len(gen[k].out)
               /\ gen[k].out[j].via # "L168"
               /\ gen[k].out[j].via = "L161"
                    => gen[k].out[j].refund
                         = ExtraPayments(j - 1) - RemainingAt(gen[k].out, j)
               /\ gen[k].out[j].via = "L149"
                    => gen[k].out[j].refund = ExtraPayments(j - 1)

\* an overpayment after the first period, refunded in part
C4_Witness ==
    \E k \in Slots : \E j \in 2..Len(gen[k].out) :
        /\ ValidTerms /\ ValidExtras
        /\ gen[k].out[j].via = "L161"
        /\ RemainingAt(gen[k].out, j) > 0
        /\ gen[k].out[j].refund > 0
        /\ gen[k].out[j].refund < ExtraPayments(j - 1)

---------------------------------------------------------------------------
(* C5  Refund placement                                                    *)

\* C5 as claimed: refunds are never negative, and a positive refund stands
\* only on the last record of a loan paid off before the last contractual
\* period by an extra payment exceeding the remaining principal.
C5_RefundOnlyEarly ==
    \A k \in Slots : \A j \in 1..Len(gen[k].out) :
        (ValidTerms /\ ValidExtras)
            => /\ gen[k].out[j].refund >= 0
               /\ gen[k].out[j].refund > 0
                    => /\ j = Len(gen[k].out)
                       /\ j - 1 < payments - 1
                       /\ ExtraPayments(j - 1) > RemainingAt(gen[k].out, j)

\* C5 amended: refunds are never negative, and a positive refund stands
\* only on the last record: either an overpayment before the last
\* contractual period (extra above the remaining principal), or the
\* schedule-closing record, which hands back the period's whole extra
\* payment, in the last contractual period too.
C5_RefundPlacement ==
    \A k \in Slots : \A j \in 1..Len(gen[k].out) :
        (ValidTerms /\ ValidExtras)
            => /\ gen[k].out[j].refund >= 0
               /\ gen[k].out[j].refund > 0
                    => /\ j = Len(gen[k].out)
                       /\ \/ /\ gen[k].out[j].via = "L161"
                             /\ j - 1 < payments - 1
                             /\ ExtraPayments(j - 1)
                                  > RemainingAt(gen[k].out, j)
                          \/ /\ gen[k].out[j].via = "L149"
                             /\ gen[k].out[j].refund = ExtraPayments(j - 1)

\* a schedule that ran the full term and carries a refund on its last record
C5_Witness ==
    \E k \in Slots :
        /\ ValidTerms /\ ValidExtras /\ gen[k].pc = "done"
        /\ payments >= 2
        /\ Len(gen[k].out) = payments
        /\ gen[k].out[payments].refund > 0

---------------------------------------------------------------------------
(* C6  Scenario C                                                          *)

\* C6 as claimed: on the terms of scenario A, a recurring payment of any
\* X > 0 from period 0 in every period gives fewer than 10 records.
C6_AnyRecurringShortens ==
    \A k \in Slots :
        (/\ IsScenarioA /\ one_time_payments = <<>>
         /\ DOMAIN recurring_payments = {<<0, 1>>}
         /\ recurring_payments[<<0, 1>>] > 0
         /\ gen[k].pc = "done")
            => Len(gen[k].out) < 10

\* C6 amended: on the terms of scenario A the schedule without extra
\* payments has 10 records; with a recurring payment of X > 0 from period
\* 0 in every period it never has more, and it has fewer exactly when
\* X >= 11.62.
C6_RecurringShortens ==
    \A k \in Slots :
        (IsScenarioA /\ gen[k].pc = "done")
            => /\ NoExtras => Len(gen[k].out) = 10
               /\ (/\ one_time_payments = <<>>
                   /\ DOMAIN recurring_payments = {<<0, 1>>}
                   /\ recurring_payments[<<0, 1>>] > 0)
                    => /\ Len(gen[k].out) <= 10
                       /\ Len(gen[k].out) < 10
                            <=> recurring_payments[<<0, 1>>] >= 1162

\* scenario A shortened to 9 records by the smallest such payment
C6_Witness ==
    \E k \in Slots :
        /\ IsScenarioA /\ gen[k].pc = "done"
        /\ one_time_payments = <<>>
        /\ recurring_payments = (<<0, 1>> :> 1162)
        /\ Len(gen[k].out) = 9

---------------------------------------------------------------------------
(* C7  Restartability                                                      *)

\* two iterations agree on every record both have produced, and on the
\* whole outcome once both are over
Agree(f, g) ==
    /\ \A j \in 1..Len(f.out) :
          j <= Len(g.out) => Triple(f.out[j]) = Triple(g.out[j])
    /\ (f.pc \in {"done", "raised"} /\ g.pc \in {"done", "raised"})
          => (f.pc = g.pc /\ Len(f.out) = Len(g.out))

\* C7: any two iterations of the one engine, whether interleaved, partly
\* consumed or started after another was abandoned, produce the same
\* records, and no step of an iteration changes the engine's fields.
C7_Restartable ==
    /\ [](\A k \in Slots : \A l \in Slots : Agree(gen[k], gen[l]))
    /\ [][engine' = engine]_vars

\* a finished iteration beside a later one that is partly consumed, after
\* an earlier generator was abandoned, on a loan whose extras were applied
C7_Witness ==
    /\ created = MaxIters
    /\ ValidTerms /\ ValidExtras /\ ~NoExtras
    /\ gen[1].pc = "done" /\ Len(gen[1].out) >= 3
    /\ gen[2].pc = "L168" /\ Len(gen[2].out) = 2
    /\ gen[2].principal_paid > gen[2].principal_i + gen[2].p1

---------------------------------------------------------------------------
(* C8  Monotonic base principal                                            *)

\* C8 as claimed: with valid terms and no extra payments the rounded base
\* principal strictly increases from each period to the next.
C8_StrictlyIncreasing ==
    \A k \in Slots : \A j \in 1..(Len(gen[k].out) - 1) :
        (ValidTerms /\ NoExtras)
            => gen[k].out[j].principal_i < gen[k].out[j + 1].principal_i

\* C8 amended: the rounded base principal never decreases from a period to
\* the next (rounding to the cent can make consecutive periods equal).
C8_NonDecreasing ==
    \A k \in Slots : \A j \in 1..(Len(gen[k].out) - 1) :
        (ValidTerms /\ NoExtras)
            => gen[k].out[j].principal_i <= gen[k].out[j + 1].principal_i

\* three periods whose base principal did grow
C8_Witness ==
    \E k \in Slots :
        /\ ValidTerms /\ NoExtras
        /\ Len(gen[k].out) >= 3
        /\ gen[k].out[1].principal_i < gen[k].out[2].principal_i
        /\ gen[k].out[2].principal_i < gen[k].out[3].principal_i

---------------------------------------------------------------------------
(* C9  Input validation                                                    *)

\* C9: input the constructor is documented to reject never becomes a
\* schedule: no iteration of such an engine produces a record.
C9_InvalidInputRejected ==
    \A k \in Slots : InvalidInput => gen[k].out = <<>>

---------------------------------------------------------------------------
(* C10  Interest does not react to extra payments                          *)

\* C10: every record not produced by the schedule-closing branch carries
\* the interest M - round(p1 * (1 + r)^i, 2), with p1 and
\* M = round(p1 + P * r, 2) functions of the loan terms alone, so it is
\* the same whatever extra payments were applied; and its principal
\* portion less the extra payment applied to principal, plus its interest,
\* is the monthly payment M.
C10_InterestIgnoresExtras ==
    LET p1 == FirstMonthPrincipal
        M == RoundHalfEven(p1 * RateDivisor + principal * annual_rate,
                           RateDivisor)
    IN  \A k \in Slots : \A j \in 1..Len(gen[k].out) :
            gen[k].out[j].via # "L149"
                => /\ gen[k].out[j].interest = M - BasePrincipal(p1, j - 1)
                   /\ gen[k].out[j].principal
                        - (ExtraPayments(j - 1) - gen[k].out[j].refund)
                        + gen[k].out[j].interest = M

\* an ordinary record of a later period, after an extra payment was applied
C10_Witness ==
    \E k \in Slots : \E j \in 2..Len(gen[k].out) :
        /\ ValidTerms /\ ValidExtras
        /\ gen[k].out[j].via = "L168"
        /\ gen[k].out[1].principal > gen[k].out[1].principal_i
        /\ gen[k].out[j].interest > 0

=============================================================================
